---- MODULE Spec2Model ----
(***************************************************************************)
(* Model of Visualisations/app.py: the Streamlit "Top-N Hotels by City"    *)
(* script.  Text is a sequence of one-character strings, a rating or a     *)
(* coordinate is an integer number of tenths (8.5 is 85), and a DataFrame  *)
(* cell is NaN, a number or a string.                                      *)
(***************************************************************************)
EXTENDS Integers, Sequences, FiniteSets, TLC

VARIABLES
    file,           \* the CSV file at CSV_PATH: header columns and raw rows
    df,             \* the DataFrame load_data returned (NotLoaded before)
    selected_city,  \* sidebar selectbox value
    min_rating,     \* sidebar slider value, in tenths
    top_n,          \* sidebar slider value
    city_df,        \* the filtered and sorted frame of the current run
    pc,             \* position of the script run
    notice,         \* st.warning was shown in this run
    title,          \* the city title written in this run (NoTitle before)
    m,              \* the folium map of this run (NoMap before)
    shown,          \* what st_folium / the legend rendered in this run
    rating_arg,     \* argument of a direct color_by_rating call
    color_ret       \* its result

vars == <<file, df, selected_city, min_rating, top_n, city_df, pc, notice,
          title, m, shown, rating_arg, color_ret>>

----------------------------------------------------------------------------
(* Text *)

Min(a, b) == IF a < b THEN a ELSE b

\* s[:n]
Take(s, n) == SubSeq(s, 1, Min(n, Len(s)))

Repeat(c, n) == [i \in 1..n |-> c]

DigitVal ==
    [c \in {"0", "1", "2", "3", "4", "5", "6", "7", "8", "9"} |->
        CASE c = "0" -> 0 [] c = "1" -> 1 [] c = "2" -> 2 [] c = "3" -> 3
          [] c = "4" -> 4 [] c = "5" -> 5 [] c = "6" -> 6 [] c = "7" -> 7
          [] c = "8" -> 8 [] c = "9" -> 9]

DigitChar == <<"0", "1", "2", "3", "4", "5", "6", "7", "8", "9">>

IsDigits(s) == Len(s) > 0 /\ \A i \in 1..Len(s) : s[i] \in DOMAIN DigitVal

RECURSIVE DigitsValue(_)
DigitsValue(s) ==
    IF s = <<>> THEN 0
    ELSE 10 * DigitsValue(SubSeq(s, 1, Len(s) - 1)) + DigitVal[s[Len(s)]]

RECURSIVE NatDigits(_)
NatDigits(n) ==
    IF n < 10 THEN <<DigitChar[n + 1]>>
    ELSE NatDigits(n \div 10) \o <<DigitChar[(n % 10) + 1]>>

----------------------------------------------------------------------------
(* DataFrame cells *)

NaN == [k |-> "nan", s |-> <<>>, v |-> 0]
Num(n) == [k |-> "num", s |-> <<>>, v |-> n]
Str(t) == [k |-> "str", s |-> t, v |-> 0]
None == [k |-> "none", s |-> <<>>, v |-> 0]

\* pd.isna: NaN and None are missing
isna(c) == c.k \in {"nan", "none"}
notna(c) == ~isna(c)

\* f"{rating:.1f}" of a number of tenths
FormatFixed1(n) == NatDigits(n \div 10) \o <<".">> \o <<DigitChar[(n % 10) + 1]>>

\* str(x) of a cell value: str(float("nan")) is "nan"
PyStr(c) ==
    CASE c.k = "nan" -> <<"n", "a", "n">>
      [] c.k = "num" -> FormatFixed1(c.v)
      [] c.k = "str" -> c.s

----------------------------------------------------------------------------
(* color_by_rating *)

NineTenths == 90
EightTenths == 80

color_by_rating_strict(r) ==
    IF isna(r) THEN "gray"
    ELSE IF r.v > NineTenths THEN "green"
    ELSE IF r.v >= EightTenths THEN "orange"
    ELSE "red"

color_by_rating(r) ==
    IF isna(r) THEN "gray"
    ELSE IF r.v >= NineTenths THEN "green"
    ELSE IF r.v >= EightTenths THEN "orange"
    ELSE "red"

----------------------------------------------------------------------------
(* load_data *)

RequiredColumns == {"city_name", "hotel_rating", "hotel_latitude", "hotel_longitude"}
OptionalColumns == {"hotel_name", "hotel_url", "hotel_description"}

\* Tokens pandas.read_csv reads as a missing value (its default na_values;
\* the ones the model's files use).
NaValues == {<<>>, <<"N", "A">>}

\* A decimal literal: digits, optionally "." and one more digit.
IsNumeric(t) ==
    \/ IsDigits(t)
    \/ /\ Len(t) >= 3
       /\ t[Len(t) - 1] = "."
       /\ IsDigits(SubSeq(t, 1, Len(t) - 2))
       /\ t[Len(t)] \in DOMAIN DigitVal

\* Its value in tenths.
NumValue(t) ==
    IF IsDigits(t) THEN 10 * DigitsValue(t)
    ELSE 10 * DigitsValue(SubSeq(t, 1, Len(t) - 2)) + DigitVal[t[Len(t)]]

\* read_csv infers a float column when every present token is a number,
\* and an object (string) column otherwise.
ColumnIsNumeric(f, c) ==
    \A i \in 1..Len(f.rows) :
        f.rows[i][c] \in NaValues \/ IsNumeric(f.rows[i][c])

read_csv(f) ==
    [i \in 1..Len(f.rows) |->
        [index |-> i - 1,
         data  |-> [c \in DOMAIN f.rows[i] |->
                      IF f.rows[i][c] \in NaValues THEN NaN
                      ELSE IF ColumnIsNumeric(f, c) THEN Num(NumValue(f.rows[i][c]))
                      ELSE Str(f.rows[i][c])]]]

dropna(frame, subset) ==
    SelectSeq(frame, LAMBDA row : \A c \in subset : notna(row.data[c]))

\* pd.to_numeric(x, errors="coerce") of one cell
to_numeric(c) ==
    CASE c.k = "num" -> c
      [] c.k = "nan" -> NaN
      [] c.k = "str" -> IF IsNumeric(c.s) THEN Num(NumValue(c.s)) ELSE NaN

\* df[col] = pd.to_numeric(df[col], errors="coerce")
assign_numeric(frame, col) ==
    [i \in 1..Len(frame) |->
        [frame[i] EXCEPT !.data = [frame[i].data EXCEPT ![col] = to_numeric(@)]]]

dropna_coordinates_only_latitude(frame) ==
    dropna(frame, {"hotel_rating", "hotel_latitude"})

dropna_coordinates(frame) ==
    dropna(frame, {"hotel_rating", "hotel_latitude", "hotel_longitude"})

load_data(f) ==
    dropna(assign_numeric(dropna_coordinates(read_csv(f)), "hotel_rating"),
           {"hotel_rating"})

----------------------------------------------------------------------------
(* Sidebar filters, filter and sort *)

Rating(row) == row.data["hotel_rating"].v

\* sorted(df["city_name"].dropna().unique())
cities(frame) ==
    {frame[i].data["city_name"] : i \in {j \in 1..Len(frame) : notna(frame[j].data["city_name"])}}

\* st.selectbox(..., cities, index=0): one of the options, None without options
selectbox(options) == IF options = {} THEN {None} ELSE options

\* st.slider("Number of hotels", min_value=5, max_value=30, step=5)
TopNMin == 5
TopNMax == 30
TopNStep == 5
TopNSlider == {n \in TopNMin..TopNMax : (n - TopNMin) % TopNStep = 0}

\* st.slider("Minimum rating", 0.0, 10.0, 8.0, 0.1), in tenths
MinRatingMax == 100
MinRatingDefault == 80
TopNDefault == 20
MinRatingSlider == 0..MinRatingMax

\* df[df["city_name"] == selected_city]
by_city(frame, city) == SelectSeq(frame, LAMBDA row : row.data["city_name"] = city)

\* .sort_values(by="hotel_rating", ascending=False) with the default
\* kind="quicksort", which is not a stable sort: every ordering of the rows
\* by non-increasing rating is a possible result.
RECURSIVE Orderings(_, _)
Orderings(frame, S) ==
    IF S = {} THEN {<<>>}
    ELSE UNION {{<<frame[i]>> \o rest : rest \in Orderings(frame, S \ {i})} :
                  i \in {j \in S : \A k \in S : Rating(frame[j]) >= Rating(frame[k])}}

sort_values_desc(frame) == Orderings(frame, 1..Len(frame))

rating_cutoff_strict(frame, cutoff) ==
    SelectSeq(frame, LAMBDA row : notna(row.data["hotel_rating"]) /\ Rating(row) > cutoff)

\* city_df[city_df["hotel_rating"] >= min_rating]; NaN >= x is False
rating_cutoff(frame, cutoff) ==
    SelectSeq(frame, LAMBDA row : notna(row.data["hotel_rating"]) /\ Rating(row) >= cutoff)

head_all(frame, n) == frame

\* .head(top_n)
head(frame, n) == Take(frame, n)

\* The frames lines 72-76 can produce.
filter_sort(frame, city, cutoff, n) ==
    {head(rating_cutoff(sorted, cutoff), n) : sorted \in sort_values_desc(by_city(frame, city))}

----------------------------------------------------------------------------
(* Map builder *)

\* html.escape(s, quote=True) of one character
EscapeChar(c) ==
    CASE c = "&"  -> <<"&", "a", "m", "p", ";">>
      [] c = "<"  -> <<"&", "l", "t", ";">>
      [] c = ">"  -> <<"&", "g", "t", ";">>
      [] c = "\"" -> <<"&", "q", "u", "o", "t", ";">>
      [] c = "'"  -> <<"&", "#", "x", "2", "7", ";">>
      [] OTHER    -> <<c>>

\* html.escape(s, quote=False) leaves the quotes alone
EscapeCharNoQuote(c) ==
    CASE c = "&"  -> <<"&", "a", "m", "p", ";">>
      [] c = "<"  -> <<"&", "l", "t", ";">>
      [] c = ">"  -> <<"&", "g", "t", ";">>
      [] OTHER    -> <<c>>

\* The escapes of t[lo..hi], concatenated in order
RECURSIVE EscapeRange(_, _, _)
EscapeRange(t, lo, hi) ==
    IF lo > hi THEN <<>>
    ELSE IF lo = hi THEN EscapeChar(t[lo])
    ELSE EscapeRange(t, lo, (lo + hi) \div 2) \o EscapeRange(t, ((lo + hi) \div 2) + 1, hi)

\* html.escape(s)
html_escape(t) == EscapeRange(t, 1, Len(t))

UnknownHotel == <<"U", "n", "k", "n", "o", "w", "n", " ", "H", "o", "t", "e", "l">>
Hash == <<"#">>
Ellipsis == <<".", ".", ".">>
NotAvailable == <<"N", "/", "A">>

\* Truncation length of the popup description
DescLimit == 300

\* folium clusters the markers above this many hotels
ClusterAbove == 10

\* row.get(col, default) of a pandas Series: the default only when the
\* label is not in the index
row_get(row, col, default) ==
    IF col \in DOMAIN row.data THEN row.data[col] ELSE default

\* html.escape(str(desc))[:300] + ("..." if len(str(desc)) > 300 else "")
safe_desc(desc) ==
    Take(html_escape(PyStr(desc)), DescLimit)
        \o (IF Len(PyStr(desc)) > DescLimit THEN Ellipsis ELSE <<>>)

\* f"{rating:.1f}" if pd.notna(rating) else "N/A"
rating_txt(rating) ==
    IF notna(rating) THEN FormatFixed1(rating.v) ELSE NotAvailable

RECURSIVE EscapeNoQuoteRange(_, _, _)
EscapeNoQuoteRange(t, lo, hi) ==
    IF lo > hi THEN <<>>
    ELSE IF lo = hi THEN EscapeCharNoQuote(t[lo])
    ELSE EscapeNoQuoteRange(t, lo, (lo + hi) \div 2)
            \o EscapeNoQuoteRange(t, ((lo + hi) \div 2) + 1, hi)

href_no_quote(url) == EscapeNoQuoteRange(PyStr(url), 1, Len(PyStr(url)))

\* href="{html.escape(str(url))}"
href(url) == html_escape(PyStr(url))

\* The four interpolated slots of the popup_html f-string; its literal
\* markup around them is fixed.
popup_html(row) ==
    [name   |-> html_escape(PyStr(row_get(row, "hotel_name", Str(UnknownHotel)))),
     rating |-> rating_txt(row_get(row, "hotel_rating", None)),
     desc   |-> safe_desc(row_get(row, "hotel_description", Str(<<>>))),
     href   |-> href(row_get(row, "hotel_url", Str(Hash)))]

marker_wrong_column(row) ==
    [index    |-> row.index,
     location |-> <<row.data["hotel_latitude"], row.data["hotel_longitude"]>>,
     popup    |-> [popup_html(row) EXCEPT !.rating = rating_txt(row_get(row, "rating", None))],
     color    |-> color_by_rating(row_get(row, "rating", None))]

\* folium.Marker(location, popup, icon) for one row of city_df
marker(row) ==
    [index    |-> row.index,
     location |-> <<row.data["hotel_latitude"], row.data["hotel_longitude"]>>,
     popup    |-> popup_html(row),
     color    |-> color_by_rating(row.data["hotel_rating"])]

\* folium.Map, fit_bounds and the optional MarkerCluster
build_map(frame) ==
    [built     |-> TRUE,
     bounds    |-> [i \in 1..Len(frame) |->
                      <<frame[i].data["hotel_latitude"], frame[i].data["hotel_longitude"]>>],
     clustered |-> Len(frame) > ClusterAbove,
     markers   |-> <<>>]

\* if city_df.empty: st.warning(...); st.stop()
after_empty_check_no_stop(frame) == "title"

after_empty_check(frame) == IF frame = <<>> THEN "stopped" ELSE "title"

----------------------------------------------------------------------------
(* The script run *)

NotLoaded == [cached |-> FALSE, frame |-> <<>>]
NoMap == [built |-> FALSE, bounds |-> <<>>, clustered |-> FALSE, markers |-> <<>>]
NoTitle == [written |-> FALSE, nb_hotels |-> 0, city |-> <<>>]
NothingShown == [map |-> FALSE, legend |-> FALSE]

\* Slider positions the model tries
MinRatingSamples == {c \in MinRatingSlider : c \in {0, 90, 95}}

\* df = load_data(CSV_PATH); st.cache_data returns the cached frame on a rerun
LoadData ==
    /\ pc = "load"
    /\ df' = IF df.cached THEN df ELSE [cached |-> TRUE, frame |-> load_data(file)]
    /\ pc' = "sidebar"
    /\ UNCHANGED <<file, selected_city, min_rating, top_n, city_df, notice,
                   title, m, shown, rating_arg, color_ret>>

\* with st.sidebar: the three widgets return what the user has set
Sidebar ==
    /\ pc = "sidebar"
    /\ \E city \in selectbox(cities(df.frame)), cutoff \in MinRatingSamples, n \in TopNSlider :
          /\ selected_city' = city
          /\ min_rating' = cutoff
          /\ top_n' = n
    /\ pc' = "filter"
    /\ UNCHANGED <<file, df, city_df, notice, title, m, shown, rating_arg, color_ret>>

\* Filter & sort
FilterSort ==
    /\ pc = "filter"
    /\ \E frame \in filter_sort(df.frame, selected_city, min_rating, top_n) :
          city_df' = frame
    /\ pc' = "empty"
    /\ UNCHANGED <<file, df, selected_city, min_rating, top_n, notice, title,
                   m, shown, rating_arg, color_ret>>

\* Empty state
EmptyState ==
    /\ pc = "empty"
    /\ notice' = (Len(city_df) = 0)
    /\ pc' = after_empty_check(city_df)
    /\ UNCHANGED <<file, df, selected_city, min_rating, top_n, city_df, title,
                   m, shown, rating_arg, color_ret>>

\* City title
CityTitle ==
    /\ pc = "title"
    /\ title' = [written |-> TRUE, nb_hotels |-> Len(city_df),
                 city |-> html_escape(selected_city.s)]
    /\ pc' = "map"
    /\ UNCHANGED <<file, df, selected_city, min_rating, top_n, city_df, notice,
                   m, shown, rating_arg, color_ret>>

\* Build map
BuildMap ==
    /\ pc = "map"
    /\ m' = build_map(city_df)
    /\ pc' = "markers"
    /\ UNCHANGED <<file, df, selected_city, min_rating, top_n, city_df, notice,
                   title, shown, rating_arg, color_ret>>

\* One iteration of: for _, row in city_df.iterrows()
AddMarker ==
    /\ pc = "markers"
    /\ Len(m.markers) < Len(city_df)
    /\ m' = [m EXCEPT !.markers = Append(@, marker(city_df[Len(@) + 1]))]
    /\ UNCHANGED <<file, df, selected_city, min_rating, top_n, city_df, pc,
                   notice, title, shown, rating_arg, color_ret>>

\* Render map
RenderMap ==
    /\ pc = "markers"
    /\ Len(m.markers) = Len(city_df)
    /\ shown' = [shown EXCEPT !.map = TRUE]
    /\ pc' = "legend"
    /\ UNCHANGED <<file, df, selected_city, min_rating, top_n, city_df, notice,
                   title, m, rating_arg, color_ret>>

\* Legend
Legend ==
    /\ pc = "legend"
    /\ shown' = [shown EXCEPT !.legend = TRUE]
    /\ pc' = "done"
    /\ UNCHANGED <<file, df, selected_city, min_rating, top_n, city_df, notice,
                   title, m, rating_arg, color_ret>>

\* The user moves a widget: Streamlit runs the script again from the top
Rerun ==
    /\ pc \in {"done", "stopped"}
    /\ pc' = "load"
    /\ city_df' = <<>>
    /\ notice' = FALSE
    /\ title' = NoTitle
    /\ m' = NoMap
    /\ shown' = NothingShown
    /\ UNCHANGED <<file, df, selected_city, min_rating, top_n, rating_arg, color_ret>>

\* A direct call color_by_rating(r)
Classify ==
    /\ pc = "call"
    /\ color_ret' = color_by_rating(rating_arg)
    /\ pc' = "returned"
    /\ UNCHANGED <<file, df, selected_city, min_rating, top_n, city_df, notice,
                   title, m, shown, rating_arg>>

----------------------------------------------------------------------------
(* Input files *)

MaxFileRows == 2      \* rows of a file of a whole run
MaxLoadRows == 2      \* rows of a file given to load_data alone
MaxSelectRows == 6    \* rows of a file given to the filter and sort step
MaxTail == 2          \* free characters at the end of a description
MaxRatingArg == 100   \* largest rating, in tenths, given to color_by_rating

SeqsUpTo(S, n) == UNION {[1..k -> S] : k \in 0..n}

Lyon == <<"L", "y", "o", "n">>
Paris == <<"P", "a", "r", "i", "s">>
Lat489 == <<"4", "8", ".", "9">>
Lon23 == <<"2", ".", "3">>
Unparseable == <<"x">>
HotelA == <<"H", "<", "1", ">">>

\* Whole runs: ratings blank, unparseable, 7.5, 8.5 and 9
AppRows ==
    {[city_name |-> c, hotel_rating |-> r, hotel_latitude |-> Lat489,
      hotel_longitude |-> Lon23, hotel_name |-> HotelA] :
        c \in {Lyon, Paris},
        r \in {<<>>, Unparseable, <<"7", ".", "5">>, <<"8", ".", "5">>, <<"9">>}}

AppFiles ==
    {[columns |-> RequiredColumns \cup {"hotel_name"}, rows |-> rs] :
        rs \in SeqsUpTo(AppRows, MaxFileRows)}

\* load_data alone: blank, NA, unparseable and numeric ratings; blank,
\* non-numeric and numeric coordinates
LoadRows ==
    {[city_name |-> Lyon, hotel_rating |-> r, hotel_latitude |-> la,
      hotel_longitude |-> lo] :
        r \in {<<>>, <<"N", "A">>, Unparseable, <<"8">>, <<"8", ".", "5">>},
        la \in {<<>>, Unparseable, Lat489},
        lo \in {<<>>, Lon23}}

LoadFiles ==
    {[columns |-> RequiredColumns, rows |-> rs] : rs \in SeqsUpTo(LoadRows, MaxLoadRows)}

\* Filter and sort: Lyon hotels rated 8.5 and 9, Paris hotels rated 9
SelectRow(c, r) ==
    [city_name |-> c, hotel_rating |-> r, hotel_latitude |-> Lat489,
     hotel_longitude |-> Lon23]

SelectRows ==
    {SelectRow(Lyon, r) : r \in {<<"8", ".", "5">>, <<"9">>}} \cup {SelectRow(Paris, <<"9">>)}

SelectFiles ==
    {[columns |-> RequiredColumns, rows |-> rs] : rs \in SeqsUpTo(SelectRows, MaxSelectRows)}

\* Popups: one valid row; any subset of the optional columns; names and
\* urls blank or with markup characters; descriptions of lengths around
\* DescLimit ending in free characters
NameTokens == {<<>>, <<"O", "'", "N">>, <<"<", "b", ">">>}
UrlTokens == {<<>>, <<"x", "\"", "y">>, <<"a", "&", "b">>}
DescAlphabet == {"a", "<", "&"}
DescPads == {0, DescLimit - 2, DescLimit - 1, DescLimit}
DescTokens ==
    {Repeat("a", n) \o tail : n \in DescPads, tail \in SeqsUpTo(DescAlphabet, MaxTail)}

OptionalToken(c, nm, url, desc) ==
    CASE c = "hotel_name" -> nm
      [] c = "hotel_url" -> url
      [] c = "hotel_description" -> desc

PopupFilesWith(cols) ==
    {[columns |-> RequiredColumns \cup cols,
      rows |-> <<[c \in RequiredColumns \cup cols |->
                    CASE c = "city_name" -> Lyon
                      [] c = "hotel_rating" -> <<"8", ".", "5">>
                      [] c = "hotel_latitude" -> Lat489
                      [] c = "hotel_longitude" -> Lon23
                      [] OTHER -> OptionalToken(c, nm, url, desc)]>>] :
        nm \in (IF "hotel_name" \in cols THEN NameTokens ELSE {<<>>}),
        url \in (IF "hotel_url" \in cols THEN UrlTokens ELSE {<<>>}),
        desc \in (IF "hotel_description" \in cols THEN DescTokens ELSE {<<>>})}

PopupFiles == UNION {PopupFilesWith(cols) : cols \in SUBSET OptionalColumns}

RatingArgs == {NaN} \cup {Num(n) : n \in 0..MaxRatingArg}

----------------------------------------------------------------------------
(* Specifications *)

InitRun(files) ==
    /\ file \in files
    /\ df = NotLoaded
    /\ selected_city = None
    /\ min_rating = MinRatingDefault
    /\ top_n = TopNDefault
    /\ city_df = <<>>
    /\ pc = "load"
    /\ notice = FALSE
    /\ title = NoTitle
    /\ m = NoMap
    /\ shown = NothingShown
    /\ rating_arg = NaN
    /\ color_ret = "none"

\* The whole script, run after run
Init == InitRun(AppFiles)

Next ==
    \/ LoadData
    \/ Sidebar
    \/ FilterSort
    \/ EmptyState
    \/ CityTitle
    \/ BuildMap
    \/ AddMarker
    \/ RenderMap
    \/ Legend
    \/ Rerun

Spec == Init /\ [][Next]_vars

\* load_data on its own
InitLoad == InitRun(LoadFiles)
NextLoad == LoadData
SpecLoad == InitLoad /\ [][NextLoad]_vars

\* The run up to the filter and sort step
InitSelect == InitRun(SelectFiles)
NextSelect == LoadData \/ Sidebar \/ FilterSort
SpecSelect == InitSelect /\ [][NextSelect]_vars

\* The marker loop of a run whose file holds one valid row, entered with
\* the map built
InitPopup ==
    /\ file \in PopupFiles
    /\ df = [cached |-> TRUE, frame |-> load_data(file)]
    /\ selected_city = Str(Lyon)
    /\ min_rating = 0
    /\ top_n = TopNMin
    /\ city_df \in filter_sort(df.frame, selected_city, min_rating, top_n)
    /\ pc = "markers"
    /\ notice = FALSE
    /\ title = [written |-> TRUE, nb_hotels |-> Len(city_df), city |-> html_escape(Lyon)]
    /\ m = build_map(city_df)
    /\ shown = NothingShown
    /\ rating_arg = NaN
    /\ color_ret = "none"

NextPopup == AddMarker \/ RenderMap
SpecPopup == InitPopup /\ [][NextPopup]_vars

\* color_by_rating called directly
InitClassify ==
    /\ file = [columns |-> RequiredColumns, rows |-> <<>>]
    /\ df = NotLoaded
    /\ selected_city = None
    /\ min_rating = MinRatingDefault
    /\ top_n = TopNDefault
    /\ city_df = <<>>
    /\ pc = "call"
    /\ notice = FALSE
    /\ title = NoTitle
    /\ m = NoMap
    /\ shown = NothingShown
    /\ rating_arg \in RatingArgs
    /\ color_ret = "none"

NextClassify == Classify
SpecClassify == InitClassify /\ [][NextClassify]_vars

----------------------------------------------------------------------------
(* Properties *)

\* The filter and sort step of the current run has produced city_df
Filtered == pc = "empty"

\* Positions in df of the rows of the selected city that meet the cutoff
Qualifying ==
    {i \in 1..Len(df.frame) :
        /\ df.frame[i].data["city_name"] = selected_city
        /\ Rating(df.frame[i]) >= min_rating}

ReturnedIndexes == {city_df[k].index : k \in 1..Len(city_df)}

LeftOut == {i \in Qualifying : df.frame[i].index \notin ReturnedIndexes}

\* C1: the rows produced by the filter and sort step number at most top_n,
\* all belong to the selected city, all have a rating of at least
\* min_rating, and are in non-increasing order of rating.
C1_SelectionContract ==
    Filtered =>
        /\ Len(city_df) <= top_n
        /\ \A k \in 1..Len(city_df) :
              /\ city_df[k].data["city_name"] = selected_city
              /\ Rating(city_df[k]) >= min_rating
        /\ \A j, k \in 1..Len(city_df) : j < k => Rating(city_df[j]) >= Rating(city_df[k])

C1_Witness ==
    /\ Filtered
    /\ Len(city_df) = top_n
    /\ Cardinality(Qualifying) > top_n
    /\ Rating(city_df[1]) > Rating(city_df[Len(city_df)])

\* C2: the cutoff is applied before the truncation: the result has exactly
\* min(top_n, number of rows of the city meeting the cutoff) rows, and no
\* row of the city that meets the cutoff and was left out is rated strictly
\* higher than a returned row.
C2_BestNMeetingCutoff ==
    Filtered =>
        /\ Len(city_df) = Min(top_n, Cardinality(Qualifying))
        /\ ReturnedIndexes \subseteq {df.frame[i].index : i \in Qualifying}
        /\ \A i \in LeftOut : \A k \in 1..Len(city_df) :
              ~(Rating(df.frame[i]) > Rating(city_df[k]))

C2_Witness ==
    /\ Filtered
    /\ LeftOut # {}
    /\ Len(city_df) = top_n
    /\ min_rating = 90
    /\ \A k \in 1..Len(city_df) : Rating(city_df[k]) = min_rating

\* C3: the sort is stable: rows of equal rating keep their dataset order,
\* and when truncation cuts a group of equal ratings the earliest are kept.
C3_StableSort ==
    Filtered =>
        /\ \A j, k \in 1..Len(city_df) :
              (j < k /\ Rating(city_df[j]) = Rating(city_df[k]))
                  => city_df[j].index < city_df[k].index
        /\ \A i \in LeftOut : \A k \in 1..Len(city_df) :
              Rating(df.frame[i]) = Rating(city_df[k])
                  => city_df[k].index < df.frame[i].index

\* C4: color_by_rating returns gray for a missing rating, green from 9.0,
\* orange from 8.0 up to but excluding 9.0, red below 8.0; no present
\* rating gives gray.
C4_ColorTable ==
    pc = "returned" =>
        /\ (rating_arg = NaN => color_ret = "gray")
        /\ (rating_arg # NaN /\ rating_arg.v >= 90 => color_ret = "green")
        /\ (rating_arg # NaN /\ rating_arg.v >= 80 /\ rating_arg.v < 90 => color_ret = "orange")
        /\ (rating_arg # NaN /\ rating_arg.v < 80 => color_ret = "red")
        /\ (rating_arg # NaN => color_ret # "gray")

C4_Witness ==
    /\ pc = "returned"
    /\ rating_arg = Num(90)
    /\ color_ret = "green"

\* Positions of the file's rows the loader is to keep: rating neither blank
\* nor unparseable, latitude and longitude not blank
KeptRows ==
    {i \in 1..Len(file.rows) :
        /\ file.rows[i]["hotel_rating"] # <<>>
        /\ IsNumeric(file.rows[i]["hotel_rating"])
        /\ file.rows[i]["hotel_latitude"] # <<>>
        /\ file.rows[i]["hotel_longitude"] # <<>>}

HasDescription(k) ==
    /\ "hotel_description" \in DOMAIN city_df[k].data
    /\ city_df[k].data["hotel_description"].k = "str"

Description(k) == city_df[k].data["hotel_description"].s

\* C6: the popup description is the escaped description, cut to its first
\* 300 characters and followed by "..." exactly when it is longer than 300
\* characters; it is never shortened without the marker.
C6_TruncationMarked ==
    \A k \in 1..Len(m.markers) :
        HasDescription(k) =>
            m.markers[k].popup.desc =
                IF Len(Description(k)) > 300
                THEN html_escape(SubSeq(Description(k), 1, 300)) \o Ellipsis
                ELSE html_escape(Description(k))

Entities ==
    {<<"&", "a", "m", "p", ";">>, <<"&", "l", "t", ";">>, <<"&", "g", "t", ";">>,
     <<"&", "q", "u", "o", "t", ";">>, <<"&", "#", "x", "2", "7", ";">>}

NoRawMarkup(t) == \A i \in 1..Len(t) : t[i] \notin {"<", ">", "\"", "'"}

\* The "&" at t[i] starts a whole character reference
EntityAt(t, i) ==
    \E e \in Entities : i + Len(e) - 1 <= Len(t) /\ SubSeq(t, i, i + Len(e) - 1) = e

\* The "&" at t[i] starts a character reference that the end of t cuts
EntityCutAt(t, i) ==
    \E e \in Entities : Len(t) - i + 1 < Len(e) /\ SubSeq(t, i, Len(t)) = SubSeq(e, 1, Len(t) - i + 1)

Escaped(t) == NoRawMarkup(t) /\ \A i \in 1..Len(t) : t[i] = "&" => EntityAt(t, i)

PastEmptyCheck == pc \in {"stopped", "title", "map", "markers", "legend", "done"}

\* C8: when the filter and sort step yields no rows the run shows the
\* notice and halts with no title, map, bounds, marker, rendered map or
\* legend; a map is only ever built from at least one row.
C8_EmptyStateHalts ==
    /\ (PastEmptyCheck /\ Len(city_df) = 0) => pc = "stopped"
    /\ pc = "stopped" =>
          /\ notice
          /\ Len(city_df) = 0
          /\ m = NoMap
          /\ title = NoTitle
          /\ shown = NothingShown
    /\ notice => pc = "stopped"
    /\ m.built => (Len(city_df) >= 1 /\ Len(m.bounds) >= 1)
    /\ (shown.map \/ shown.legend) => (m.built /\ ~notice)

C8_Witness ==
    /\ pc = "stopped"
    /\ notice
    /\ Len(df.frame) > 0
    /\ selected_city # None

\* Text of field col of the row behind marker k with the default in place
\* of an absent column or a missing value
ValueOrDefault(k, col, default) ==
    IF col \notin DOMAIN city_df[k].data \/ isna(city_df[k].data[col])
    THEN default
    ELSE PyStr(city_df[k].data[col])

\* C9: a missing name, url or description of a rendered row is replaced by
\* its default ("Unknown Hotel", "#", empty), whether the column is absent
\* or the value is missing on the row.
C9_DefaultsForMissing ==
    \A k \in 1..Len(m.markers) :
        /\ m.markers[k].popup.name = html_escape(ValueOrDefault(k, "hotel_name", UnknownHotel))
        /\ m.markers[k].popup.href = html_escape(ValueOrDefault(k, "hotel_url", Hash))
        /\ ("hotel_description" \notin DOMAIN city_df[k].data
              \/ isna(city_df[k].data["hotel_description"]))
             => m.markers[k].popup.desc = <<>>

\* C10: every marker of every run is green, orange or red and its popup
\* rating is a formatted number: gray and "N/A" never appear.
C10_NoGrayNoNA ==
    \A k \in 1..Len(m.markers) :
        /\ m.markers[k].color \in {"green", "orange", "red"}
        /\ m.markers[k].popup.rating # NotAvailable
        /\ IsNumeric(m.markers[k].popup.rating)

C10_Witness ==
    /\ pc = "done"
    /\ Len(m.markers) = 1
    /\ m.markers[1].color = "orange"
    /\ \E i \in 1..Len(file.rows) :
          /\ file.rows[i]["hotel_rating"] = Unparseable
          /\ Str(file.rows[i]["city_name"]) = selected_city

====
